---- MODULE Spec2Model ----
(***************************************************************************)
(* State-machine model of the delphi package: the generic Trainer          *)
(* (delphi/trainer.py) and the TruncatedLinearRegression estimator         *)
(* (delphi/stats/truncated_linear_regression.py).                          *)
(*                                                                         *)
(* Spec     drives one Trainer object through train_model / eval_model.    *)
(* SpecFit  drives one TruncatedLinearRegression object through fit,       *)
(*          predict and its result properties.                             *)
(* SpecOracle evaluates one membership oracle of delphi/oracle.py          *)
(*          (Interval, KIntervalUnion, UnknownGaussian) on batches.        *)
(* SpecDriver runs main(args) of the experiment script arbitrary.py.       *)
(***************************************************************************)
EXTENDS Integers, Sequences, FiniteSets, TLC

(* ------------------------------ bounds -------------------------------- *)
MaxTrials == 2
MaxEpochs == 2
MaxNoChange == 2
MaxBatches == 1
MaxLoss == 2
MaxCalls == 1
MaxRows == 3
MaxCols == 2
MaxVal == 2
MaxVar == 3
MaxCoord == 2
MaxBatchRows == 1
MaxDim == 2
MaxIntervals == 2
MaxDraw == 2
MaxRounds == 3
GridLen == 2
GridStep == 2

(* ------------------------- program constants -------------------------- *)
\* trainer.py:27  INFINITY = float('inf'); every finite loss of the model is
\* far below it, and arithmetic on it saturates (FSub).
INFINITY == 1000
NegInf == 0 - INFINITY
TRAIN == "train"
VAL == "val"

\* trainer.py:6 `import time` is rebound by trainer.py:17 `from time import
\* time`: at call time the module-level name `time` is the function.
TimeBinding == "function"

\* Python float subtraction a - b for a in {-inf} \cup finite, b finite.
FSub(a, b) == IF a = NegInf THEN NegInf ELSE a - b

VARIABLES
    args,                  \* Trainer.args (trainer.py:76)
    model,                 \* the delphi model the Trainer drives (trainer.py:74)
    store,                 \* Trainer.store (trainer.py:84)
    no_improvement_count,  \* trainer.py:80
    best_loss,             \* trainer.py:81
    pc,                    \* position of the running Trainer method
    op,                    \* the Trainer method last called
    loaders,               \* (train_loader, val_loader) of the running call, as
                           \* batch counts; val = <<>> is val_loader None
    trial,                 \* loop variable of trainer.py:141
    epoch,                 \* loop variable of trainer.py:153
    loop,                  \* frame of the running model_loop
    val_loss,              \* local val_loss of train_model: <<>> when unbound
    result,                \* how the last call ended
    error,                 \* the exception it raised, "" when none
    obs,                   \* calls the running method has made so far
    calls,                 \* number of Trainer methods called so far
    est,                   \* TruncatedLinearRegression instance attributes
    cfg,                   \* TruncatedLinearRegression.args, and whether the
                           \* interpreter executes assert statements
    out,                   \* outcome of the last estimator operation
    reads,                 \* the property being re-read and the value its
                           \* first read returned since the last completed fit
    phi,                   \* a membership oracle object (oracle.py)
    x,                     \* the batch it is called on
    indicator,             \* how that call ended, and the tensor it returned
    dargs,                 \* args of arbitrary.main (args.phi is phi)
    dpc,                   \* position of main
    dtrial,                \* loop variable i of arbitrary.py:51
    grid_pos,              \* position of `for s in samples` (arbitrary.py:69)
    round,                 \* sampling rounds done for the current s
    x_trunc,               \* arbitrary.py:80
    y_trunc,               \* arbitrary.py:80
    total,                 \* arbitrary.py:79
    dstore,                \* the trial's Store and its `results` table
    accepted,              \* rows generated for the current s whose
                           \* response lies in the truncation set
    derror                 \* the exception main ended with, "" when none

tvars == <<args, model, store, no_improvement_count, best_loss, pc, op, loaders,
           trial, epoch, loop, val_loss, result, error, obs, calls>>
evars == <<est, cfg, out, reads>>
ovars == <<phi, x, indicator>>
dvars == <<dargs, dpc, dtrial, grid_pos, round, x_trunc, y_trunc, total,
           dstore, accepted, derror>>
vars == <<args, model, store, no_improvement_count, best_loss, pc, op, loaders,
          trial, epoch, loop, val_loss, result, error, obs, calls,
          est, cfg, out, reads, phi, x, indicator,
          dargs, dpc, dtrial, grid_pos, round, x_trunc, y_trunc, total,
          dstore, accepted, derror>>

(* ------------------------------ helpers ------------------------------- *)
Min2(a, b) == IF a < b THEN a ELSE b

Count(s, e) == Cardinality({k \in DOMAIN s : s[k] = e})

NoObs ==
    [pretrain |-> 0, make_opt |-> 0, post |-> 0,
     train_loops |-> 0, val_loops |-> 0,
     tables |-> 0, rows |-> 0,
     trial_log |-> <<>>, batch_log |-> <<>>, batch_type |-> "",
     sched_steps |-> 0, iter_hooks |-> 0, epoch_hooks |-> 0,
     checked |-> 0, min_val |-> <<>>, streak |-> 0, improved |-> FALSE,
     early_exit |-> FALSE]

NoLoop == [type |-> "", n |-> 0, i |-> 0, loss_bound |-> FALSE, ctx |-> ""]

\* trainer.py:36-45 DEFAULTS: the option values a Trainer can be built with.
TolValues == {NegInf, 0, 1}

ArgsSet ==
    [epochs : 0..MaxEpochs, trials : 1..MaxTrials, tol : TolValues,
     early_stopping : BOOLEAN, n_iter_no_change : 0..MaxNoChange]

\* The model handed to Trainer.__init__ (trainer.py:73-74): which class it is,
\* whether make_optimizer_and_schedule gives it a schedule, and its
\* args.epoch_step.
\* For a TruncatedLinearRegression: whether args.noise_var is given, and the
\* variance 1/lambda its inverse-variance parameter implies, which starts
\* inside var_bounds.
VarBoundsLower == 1
VarBoundsUpper == 2

ModelSet ==
    {m \in [kind : {"delphi", "TruncatedLinearRegression"},
            schedule : BOOLEAN, epoch_step : BOOLEAN,
            noise_var : BOOLEAN, variance : {VarBoundsLower}] :
        /\ m.epoch_step => m.schedule
        /\ m.kind = "delphi" => m.noise_var}

\* model.checkpoint as read at trainer.py:148-150.
CheckpointSet == {"none", "with_prec1", "without_prec1"}

(* ------------------------- Trainer.__init__ --------------------------- *)
\* trainer.py:57-84
TrainerInit ==
    /\ args \in ArgsSet
    /\ model \in ModelSet
    /\ store \in {[attached |-> a, tables |-> {}, logs |-> 0, eval |-> 0] :
                    a \in BOOLEAN}
    /\ no_improvement_count = 0
    /\ best_loss = NegInf
    /\ pc = "idle"
    /\ op = "none"
    /\ loaders = [train |-> 0, val |-> <<>>]
    /\ trial = 0
    /\ epoch = 0
    /\ loop = NoLoop
    /\ val_loss = <<>>
    /\ result = "none"
    /\ error = ""
    /\ obs = NoObs
    /\ calls = 0


\* An exception leaves the running method: the call ends, nothing is returned.
Raise(e) ==
    /\ pc' = "idle"
    /\ result' = "raised"
    /\ error' = e

\* obs after the running method has called e.
Called(o, e) ==
    LET o1 == [o EXCEPT !.trial_log = Append(@, e)]
    IN  CASE e = "pretrain_hook" -> [o1 EXCEPT !.pretrain = @ + 1]
          [] e = "make_optimizer_and_schedule" -> [o1 EXCEPT !.make_opt = @ + 1]
          [] e = "post_training_hook" -> [o1 EXCEPT !.post = @ + 1]
          [] e = "model_loop:train" -> [o1 EXCEPT !.train_loops = @ + 1]
          [] e = "model_loop:val" -> [o1 EXCEPT !.val_loops = @ + 1]
          [] OTHER -> o1

RECURSIVE CalledAll(_, _)
CalledAll(o, es) ==
    IF es = <<>> THEN o ELSE CalledAll(Called(o, Head(es)), Tail(es))

\* cox.store.Store.add_table / append_row as the Trainer uses them.
AddTable(st, name) == [st EXCEPT !.tables = @ \cup {name}]
AppendLogsRow(st) == [st EXCEPT !.logs = @ + 1]

(* ------------------------ Trainer.train_model ------------------------- *)
\* trainer.py:126  len(train_loader.dataset) == 0; a loader over n rows
\* yields no batch exactly when n = 0.
TrainLoaderEmpty_Unchecked(nbatches) == FALSE
TrainLoaderEmpty(nbatches) == nbatches = 0

\* trainer.py:124-140  unpack the loaders, refuse an empty training set, add
\* the `logs` table, then enter the trial loop.
CallTrainModel ==
    /\ pc = "idle"
    /\ calls < MaxCalls
    /\ \E nt \in 0..MaxBatches, v \in {<<>>} \cup {<<k>> : k \in 0..MaxBatches} :
        /\ loaders' = [train |-> nt, val |-> v]
        /\ op' = "train_model"
        /\ calls' = calls + 1
        /\ val_loss' = <<>>
        /\ loop' = NoLoop
        /\ trial' = 0
        /\ epoch' = 0
        /\ IF TrainLoaderEmpty(nt)
           THEN /\ Raise("Exception: No Datapoints in Train Loader")
                /\ obs' = NoObs
                /\ store' = store
           ELSE /\ pc' = "trial"
                /\ result' = "none"
                /\ error' = ""
                /\ IF store.attached
                   THEN /\ store' = AddTable(store, "logs")
                        /\ obs' = [NoObs EXCEPT !.tables = 1]
                   ELSE /\ store' = store
                        /\ obs' = NoObs
    /\ UNCHANGED <<args, model, no_improvement_count, best_loss>>
    /\ UNCHANGED <<evars, ovars, dvars>>

\* trainer.py:143-146  the hooks that open a trial, in call order.
TrialHooks == <<"pretrain_hook", "make_optimizer_and_schedule">>

\* trainer.py:191  the hook that closes a trial that ran all its epochs.
TrialEndHooks == <<"post_training_hook">>

\* trainer.py:187  the hook called when the stopping test of line 183 fires.
EarlyExitHooks_Omitted == <<>>
EarlyExitHooks == <<"post_training_hook">>

\* trainer.py:141-150 and 192  head of `for trial in range(self.args.trials)`.
\* With a checkpoint that carries no 'prec1', line 150 calls
\* model_loop(VAL, val_loader) without its `epoch` argument: TypeError.
TrialHead ==
    /\ pc = "trial"
    /\ IF trial < args.trials
       THEN \E ck \in CheckpointSet :
            /\ obs' = CalledAll([obs EXCEPT !.trial_log = <<>>, !.streak = 0],
                                TrialHooks)
            /\ IF ck = "without_prec1"
               THEN /\ Raise("TypeError: model_loop() missing 'epoch'")
                    /\ epoch' = epoch
               ELSE /\ pc' = "epoch"
                    /\ epoch' = 1
                    /\ UNCHANGED <<result, error>>
       ELSE /\ pc' = "idle"
            /\ result' = "model"
            /\ UNCHANGED <<error, obs, epoch>>
    /\ UNCHANGED <<args, model, store, no_improvement_count, best_loss, op,
                   loaders, trial, loop, val_loss, calls>>
    /\ UNCHANGED <<evars, ovars, dvars>>

\* Entry of model_loop (trainer.py:207-220) for a loader of n batches.
EnterLoop(type, n, ctx) ==
    [type |-> type, n |-> n, i |-> 0, loss_bound |-> FALSE, ctx |-> ctx]

\* trainer.py:153-155 and 190-191  head of `for epoch in range(1, epochs+1)`:
\* start the epoch's training loop, or close the trial.
EpochHead ==
    /\ pc = "epoch"
    /\ IF epoch <= args.epochs
       THEN /\ loop' = EnterLoop(TRAIN, loaders.train, "train_model")
            /\ obs' = Called(obs, "model_loop:train")
            /\ pc' = "loop"
            /\ trial' = trial
       ELSE /\ obs' = CalledAll(obs, TrialEndHooks)
            /\ trial' = trial + 1
            /\ pc' = "trial"
            /\ loop' = loop
    /\ UNCHANGED <<args, model, store, no_improvement_count, best_loss, op,
                   loaders, epoch, val_loss, result, error, calls>>
    /\ UNCHANGED <<evars, ovars, dvars>>

(* ------------------------- Trainer.model_loop ------------------------- *)
\* trainer.py:222-248  the calls one batch makes on the model, in order.
\* sched: the per-batch scheduler step of line 240 is taken.
BatchCalls(is_train, sched) ==
    <<"zero_grad", "forward", "regularize">>
    \o (IF is_train
        THEN <<"backward", "optimizer.step">>
             \o (IF sched THEN <<"schedule.step">> ELSE <<>>)
        ELSE <<>>)
    \o <<"iteration_hook">>

\* trainer.py:223  self.model(batch): TruncatedLinearRegression.__call__
\* (truncated_linear_regression.py:266) takes (X, y) and is given one batch.
ForwardAccepts(m) == m.kind # "TruncatedLinearRegression"

\* trainer.py:248  iteration_hook(i, loop_type, loss, prec1, prec5, batch):
\* TruncatedLinearRegression.iteration_hook
\* (truncated_linear_regression.py:289) takes (i, loop_type, loss, batch).
IterationHookAccepts(m) == m.kind # "TruncatedLinearRegression"

\* The model is a TruncatedLinearRegression in the unknown-variance regime.
UnknownVariance(m) == m.kind = "TruncatedLinearRegression" /\ ~m.noise_var

\* trainer.py:238  optimizer.step() moves the inverse-variance parameter
\* anywhere: v is the variance it implies afterwards.
StepValues(m) == IF UnknownVariance(m) THEN 0..MaxVar ELSE {m.variance}
OptimizerStep(m, v) == [m EXCEPT !.variance = v]

\* ch.clamp(var, lower, upper)
Clamp(v, lo, hi) == IF v < lo THEN lo ELSE IF v > hi THEN hi ELSE v

\* truncated_linear_regression.py:289-293  the estimator's iteration_hook.
IterationHook(m) ==
    IF UnknownVariance(m)
    THEN [m EXCEPT !.variance = Clamp(@, VarBoundsLower, VarBoundsUpper)]
    ELSE m

\* The calls of one batch up to and including the one that raises.
RECURSIVE UpTo(_, _)
UpTo(es, e) ==
    IF es = <<>> THEN <<>>
    ELSE IF Head(es) = e THEN <<e>>
    ELSE <<Head(es)>> \o UpTo(Tail(es), e)

\* trainer.py:221-248  one iteration of `for i, batch in iterator`.
LoopBatch ==
    /\ pc = "loop"
    /\ loop.i < loop.n
    /\ LET is_train == (loop.type = TRAIN)
           sched == model.schedule /\ ~model.epoch_step
           es == BatchCalls(is_train, sched)
           o == [obs EXCEPT !.batch_type = loop.type]
       IN  IF ~ForwardAccepts(model)
           THEN /\ Raise("TypeError: __call__() missing argument 'y'")
                /\ obs' = [o EXCEPT !.batch_log = UpTo(es, "forward")]
                /\ loop' = loop
                /\ model' = model
           ELSE \E v \in (IF is_train THEN StepValues(model) ELSE {model.variance}) :
                IF ~IterationHookAccepts(model)
                THEN /\ Raise("TypeError: iteration_hook() takes 5 positional arguments")
                     /\ obs' = [o EXCEPT !.batch_log = es,
                                         !.sched_steps = @ + Count(es, "schedule.step")]
                     /\ loop' = [loop EXCEPT !.loss_bound = TRUE]
                     /\ model' = OptimizerStep(model, v)
                ELSE /\ obs' = [o EXCEPT !.batch_log = es,
                                         !.sched_steps = @ + Count(es, "schedule.step"),
                                         !.iter_hooks = @ + 1]
                     /\ loop' = [loop EXCEPT !.i = @ + 1, !.loss_bound = TRUE]
                     /\ model' = IterationHook(OptimizerStep(model, v))
                     /\ UNCHANGED <<pc, result, error>>
    /\ UNCHANGED <<args, store, no_improvement_count, best_loss, op,
                   loaders, trial, epoch, val_loss, calls>>
    /\ UNCHANGED <<evars, ovars, dvars>>

\* trainer.py:249  the model carries `schedule`; the per-epoch step reads
\* `self.model.scheduler`, an attribute nothing assigns.
EpochStepRaises(m) == m.schedule /\ m.epoch_step

\* trainer.py:249-253 and the caller's assignment of the returned means
\* (trainer.py:155, 160; 104 for eval_model).  Line 251 reads the local
\* `loss`, bound only by a batch.  The mean validation loss is whatever the
\* batches produced.
LoopEnd ==
    /\ pc = "loop"
    /\ loop.i = loop.n
    /\ IF EpochStepRaises(model)
       THEN /\ Raise("AttributeError: 'scheduler'")
            /\ UNCHANGED <<obs, loop, val_loss>>
       ELSE IF ~loop.loss_bound
       THEN /\ Raise("UnboundLocalError: loss")
            /\ UNCHANGED <<obs, loop, val_loss>>
       ELSE IF loop.ctx = "eval_model"
       THEN /\ Raise("ValueError: too many values to unpack (expected 2)")
            /\ obs' = [obs EXCEPT !.epoch_hooks = @ + 1]
            /\ UNCHANGED <<loop, val_loss>>
       ELSE IF loop.ctx = "model_loop"
       THEN /\ pc' = "idle"
            /\ result' = "means"
            /\ error' = error
            /\ obs' = [obs EXCEPT !.epoch_hooks = @ + 1]
            /\ UNCHANGED <<loop, val_loss>>
       ELSE IF loop.type = TRAIN
       THEN /\ IF loaders.val # <<>>
               THEN /\ loop' = EnterLoop(VAL, loaders.val[1], "train_model")
                    /\ obs' = Called([obs EXCEPT !.epoch_hooks = @ + 1],
                                     "model_loop:val")
                    /\ pc' = "loop"
               ELSE /\ loop' = NoLoop
                    /\ obs' = [obs EXCEPT !.epoch_hooks = @ + 1]
                    /\ pc' = "log"
            /\ UNCHANGED <<val_loss, result, error>>
       ELSE /\ \E l \in 0..MaxLoss : val_loss' = <<l>>
            /\ loop' = NoLoop
            /\ obs' = [obs EXCEPT !.epoch_hooks = @ + 1]
            /\ pc' = "log"
            /\ UNCHANGED <<result, error>>
    /\ UNCHANGED <<args, model, store, no_improvement_count, best_loss, op,
                   loaders, trial, epoch, calls>>
    /\ UNCHANGED <<evars, ovars, dvars>>

\* trainer.py:207-210  the loop types model_loop accepts, and one it refuses.
LoopTypes == {TRAIN, VAL}
LoopTypeArgs == {TRAIN, VAL, "test"}

\* trainer.py:194-220  model_loop(loop_type, loader, epoch) called on its
\* own: the loop type is checked before anything else happens.
CallModelLoop ==
    /\ pc = "idle"
    /\ calls < MaxCalls
    /\ \E t \in LoopTypeArgs, n \in 0..MaxBatches :
        /\ op' = "model_loop"
        /\ calls' = calls + 1
        /\ loaders' = [train |-> 0, val |-> <<>>]
        /\ loop' = EnterLoop(t, n, "model_loop")
        /\ IF t \notin LoopTypes
           THEN /\ Raise("ValueError: loop type must be 'train' or 'val'")
                /\ obs' = NoObs
           ELSE /\ pc' = "loop"
                /\ result' = "none"
                /\ error' = ""
                /\ obs' = Called(NoObs, IF t = TRAIN THEN "model_loop:train"
                                        ELSE "model_loop:val")
    /\ UNCHANGED <<args, model, store, no_improvement_count, best_loss, trial,
                   epoch, val_loss>>
    /\ UNCHANGED <<evars, ovars, dvars>>

(* ------------------ train_model: the tail of an epoch ----------------- *)
\* trainer.py:175-178
NextCount(cnt, best, tol, vl) ==
    IF tol > NegInf /\ vl > FSub(best, tol) THEN cnt + 1 ELSE 0

\* trainer.py:180-181
NextBest(best, vl) == IF vl < best THEN vl ELSE best

\* trainer.py:174  the stopping state is touched only with early_stopping.
CountAfter(a, cnt, best, vl) ==
    IF a.early_stopping THEN NextCount(cnt, best, a.tol, vl) ELSE cnt
BestAfter(a, best, vl) ==
    IF a.early_stopping THEN NextBest(best, vl) ELSE best

\* trainer.py:183  the test that ends training, evaluated every epoch.
StopNow(a, cnt) == cnt >= a.n_iter_no_change

\* trainer.py:163-171 and 174-181 read the local val_loss.
NeedsValLoss(a, st) == st.attached \/ a.early_stopping

\* What the early-stopping rule of the documentation would record for this
\* epoch: the minimum validation loss observed, whether this epoch improved
\* on the earlier minimum by more than tol, and the run of consecutive
\* epochs of the trial that did not (the first observation has nothing to
\* improve on and counts into the run).
Observe(o, a, vl) ==
    LET first == (o.min_val = <<>>)
        improved == ~first /\ (a.tol = NegInf \/ vl < o.min_val[1] - a.tol)
    IN  [o EXCEPT !.checked = @ + 1,
                  !.min_val = IF first THEN <<vl>> ELSE <<Min2(@[1], vl)>>,
                  !.improved = improved,
                  !.streak = IF improved THEN 0 ELSE @ + 1]

\* trainer.py:162-188  log the epoch, update the stopping state, then either
\* stop (post_training_hook, return the model) or go on to the next epoch.
EpochTail ==
    /\ pc = "log"
    /\ IF NeedsValLoss(args, store) /\ val_loss = <<>>
       THEN /\ Raise("UnboundLocalError: val_loss")
            /\ UNCHANGED <<store, no_improvement_count, best_loss, obs, epoch>>
       ELSE LET cnt == IF val_loss = <<>> THEN no_improvement_count
                       ELSE CountAfter(args, no_improvement_count, best_loss,
                                       val_loss[1])
                bst == IF val_loss = <<>> THEN best_loss
                       ELSE BestAfter(args, best_loss, val_loss[1])
                o1 == IF store.attached THEN [obs EXCEPT !.rows = @ + 1] ELSE obs
                o2 == IF args.early_stopping
                      THEN Observe(o1, args, val_loss[1]) ELSE o1
            IN  /\ store' = IF store.attached THEN AppendLogsRow(store) ELSE store
                /\ no_improvement_count' = cnt
                /\ best_loss' = bst
                /\ IF StopNow(args, cnt)
                   THEN /\ obs' = CalledAll([o2 EXCEPT !.early_exit = TRUE],
                                            EarlyExitHooks)
                        /\ pc' = "idle"
                        /\ result' = "model"
                        /\ epoch' = epoch
                        /\ error' = error
                   ELSE /\ obs' = o2
                        /\ pc' = "epoch"
                        /\ epoch' = epoch + 1
                        /\ UNCHANGED <<result, error>>
    /\ UNCHANGED <<args, model, op, loaders, trial, loop, val_loss, calls>>
    /\ UNCHANGED <<evars, ovars, dvars>>

(* ------------------------- Trainer.eval_model ------------------------- *)
\* trainer.py:96-104  start the timer with time.time(), add the `eval` table,
\* run one validation loop.  The rest of the method (lines 104-114) is the
\* "eval_model" branch of LoopEnd.
CallEvalModel ==
    /\ pc = "idle"
    /\ calls < MaxCalls
    /\ \E n \in 0..MaxBatches :
        /\ loaders' = [train |-> 0, val |-> <<n>>]
        /\ op' = "eval_model"
        /\ calls' = calls + 1
        /\ IF TimeBinding # "module"
           THEN /\ Raise("AttributeError: 'builtin_function_or_method' object has no attribute 'time'")
                /\ obs' = NoObs
                /\ store' = store
                /\ loop' = NoLoop
           ELSE /\ store' = IF store.attached THEN AddTable(store, "eval") ELSE store
                /\ obs' = Called([NoObs EXCEPT !.tables = IF store.attached THEN 1 ELSE 0],
                                 "model_loop:val")
                /\ loop' = EnterLoop(VAL, n, "eval_model")
                /\ pc' = "loop"
                /\ result' = "none"
                /\ error' = ""
    /\ UNCHANGED <<args, model, no_improvement_count, best_loss, trial, epoch,
                   val_loss>>
    /\ UNCHANGED <<evars, ovars, dvars>>

(* ================= TruncatedLinearRegression (estimator) ============== *)
\* An instance attribute: never assigned, None, or a tensor with contents val.
Unset == [tag |-> "unset", val |-> 0]
None == [tag |-> "none", val |-> 0]
Tensor(v) == [tag |-> "tensor", val |-> v]

Props == {"best_coef_", "best_intercept_", "avg_coef_", "avg_intercept_",
          "variance_"}

NoOut == [op |-> "none", kind |-> "none", err |-> "", warned |-> FALSE,
          ref |-> "", val |-> 0, validated |-> FALSE, fitted_before |-> FALSE,
          input |-> [rows |-> 0, cols |-> 0, ydim |-> 0, ycols |-> 0],
          T_before |-> <<>>]

NoReads == [op |-> "", val |-> 0]

\* truncated_linear_regression.py:51-97  __init__ for an independent data set
\* (dependent = False): args.noise_var absent (<<>>) or a tensor with
\* noise_var.size(0) rows; self.coef and self.intercept start as None, the
\* other result attributes are not assigned.  cfg.optimize: the interpreter
\* runs with -O and skips assert statements.
EstimatorInit ==
    /\ cfg \in [noise_var : {<<>>} \cup {<<r>> : r \in 1..MaxCols},
                fit_intercept : BOOLEAN, optimize : BOOLEAN, T : {<<>>}]
    /\ est = [coef |-> None, intercept |-> None, avg_coef |-> Unset,
              avg_intercept |-> Unset, variance |-> Unset]
    /\ out = NoOut
    /\ reads = NoReads

\* truncated_linear_regression.py:109-113  the assertions of fit, in order;
\* "" when every one passes.  Line 113 dereferences args.noise_var without
\* testing it for None.
ValidationError(inp, c) ==
    IF c.optimize THEN ""
    ELSE IF ~(inp.rows > inp.cols) THEN "AssertionError"
    ELSE IF ~(inp.ydim = 2 /\ inp.ycols <= inp.cols) THEN "AssertionError"
    ELSE IF c.noise_var = <<>>
         THEN "AttributeError: 'NoneType' object has no attribute 'size'"
    ELSE IF c.noise_var[1] # inp.ycols THEN "AssertionError"
    ELSE ""

\* truncated_linear_regression.py:139-161  the result attributes after
\* training returned; w stands for the contents this training run produced.
AssignResults(e, c, w) ==
    LET e1 == IF c.noise_var = <<>> THEN [e EXCEPT !.variance = Tensor(w)] ELSE e
    IN  IF c.fit_intercept
        THEN [e1 EXCEPT !.coef = Tensor(w), !.intercept = Tensor(w),
                        !.avg_coef = Tensor(w), !.avg_intercept = Tensor(w)]
        ELSE [e1 EXCEPT !.coef = Tensor(w), !.avg_coef = Tensor(w)]

Fitted(e) == e.coef.tag = "tensor"

\* delphi.trainer.train_model(args, model, train_loader, val_loader, ...) as
\* fit calls it (truncated_linear_regression.py:134): it returns the best
\* parameters and the trajectory (TRUE), or raises (FALSE).
TrainModelReturns == BOOLEAN

\* truncated_linear_regression.py:99-162  fit(X, y) with X of shape
\* (rows, cols) and y of ydim dimensions and, when 2-D, ycols columns.
\* train_model (line 134) either returns the parameters or raises.
Fit ==
    /\ \E n \in 1..MaxRows, d \in 1..MaxCols, yd \in {1, 2}, k \in 1..(MaxCols + 1) :
        /\ (yd = 1 => k = 1)
        /\ LET inp == [rows |-> n, cols |-> d, ydim |-> yd, ycols |-> k]
               err == ValidationError(inp, cfg)
               o == [NoOut EXCEPT !.op = "fit", !.input = inp,
                                  !.fitted_before = Fitted(est),
                                  !.T_before = cfg.T]
           IN  IF err # ""
               THEN /\ out' = [o EXCEPT !.kind = "raised", !.err = err]
                    /\ UNCHANGED <<est, cfg, reads>>
               ELSE /\ cfg' = [cfg EXCEPT !.T = <<n>>]
                    /\ \E trained \in TrainModelReturns :
                       IF trained
                       THEN /\ \E w \in 1..MaxVal : est' = AssignResults(est, cfg, w)
                            /\ out' = [o EXCEPT !.kind = "self", !.validated = TRUE]
                            /\ reads' = NoReads
                       ELSE /\ out' = [o EXCEPT !.kind = "raised",
                                                !.err = "train_model",
                                                !.validated = TRUE]
                            /\ UNCHANGED <<est, reads>>
    /\ UNCHANGED <<tvars, ovars, dvars>>

\* A property's answer: a new tensor with the attribute's contents
\* (`.clone()`), or the attribute's own tensor.
Clone(name, a) == [ref |-> "fresh", val |-> a.val]
Live(name, a) == [ref |-> name, val |-> a.val]

\* truncated_linear_regression.py:207, 215, 223, 231, 241  what each property
\* returns when its attribute holds a tensor.
BestCoefReturn(a) == Clone("coef", a)
BestInterceptReturn(a) == Clone("intercept", a)
AvgCoefReturn(a) == Clone("avg_coef", a)
AvgInterceptReturn(a) == Clone("avg_intercept", a)
VarianceReturn(a) == Live("variance", a)

Returned(p, r) ==
    [NoOut EXCEPT !.op = p, !.kind = "value", !.ref = r.ref, !.val = r.val,
                  !.fitted_before = Fitted(est)]
Raised(p, e) ==
    [NoOut EXCEPT !.op = p, !.kind = "raised", !.err = e,
                  !.fitted_before = Fitted(est)]
Warned(p) ==
    [NoOut EXCEPT !.op = p, !.kind = "None", !.warned = TRUE,
                  !.fitted_before = Fitted(est)]

\* reads after property p answered o: the first value p returned is kept
\* while p is read again, and replaced when another property returns one.
Remember(p, o) ==
    IF o.kind = "value" /\ reads.op # p
    THEN [op |-> p, val |-> o.val] ELSE reads

\* truncated_linear_regression.py:202-207 and 218-223  `self.coef.clone()`,
\* `self.avg_coef.clone()`: no test of the attribute.
CoefOutcome(p, a, r) ==
    IF a.tag = "tensor" THEN Returned(p, r)
    ELSE IF a.tag = "none"
         THEN Raised(p, "AttributeError: 'NoneType' object has no attribute 'clone'")
    ELSE Raised(p, "AttributeError: no such attribute")

\* truncated_linear_regression.py:209-216 and 225-232  clone the attribute
\* unless it is None, else warn and fall off the end (None).  Reading an
\* attribute that was never assigned raises.
InterceptOutcome(p, a, r) ==
    IF a.tag = "unset" THEN Raised(p, "AttributeError: no such attribute")
    ELSE IF a.tag = "tensor" THEN Returned(p, r)
    ELSE Warned(p)

\* truncated_linear_regression.py:234-243
VarianceOutcome(p, c, a, r) ==
    IF c.noise_var = <<>>
    THEN IF a.tag = "unset" THEN Raised(p, "AttributeError: no such attribute")
         ELSE Returned(p, r)
    ELSE Warned(p)

\* The five property getters.
ReadBestCoef ==
    /\ out' = CoefOutcome("best_coef_", est.coef, BestCoefReturn(est.coef))
    /\ reads' = Remember("best_coef_", out')
    /\ UNCHANGED <<est, cfg>>
    /\ UNCHANGED <<tvars, ovars, dvars>>

ReadBestIntercept ==
    /\ out' = InterceptOutcome("best_intercept_", est.intercept,
                               BestInterceptReturn(est.intercept))
    /\ reads' = Remember("best_intercept_", out')
    /\ UNCHANGED <<est, cfg>>
    /\ UNCHANGED <<tvars, ovars, dvars>>

ReadAvgCoef ==
    /\ out' = CoefOutcome("avg_coef_", est.avg_coef, AvgCoefReturn(est.avg_coef))
    /\ reads' = Remember("avg_coef_", out')
    /\ UNCHANGED <<est, cfg>>
    /\ UNCHANGED <<tvars, ovars, dvars>>

ReadAvgIntercept ==
    /\ out' = InterceptOutcome("avg_intercept_", est.avg_intercept,
                               AvgInterceptReturn(est.avg_intercept))
    /\ reads' = Remember("avg_intercept_", out')
    /\ UNCHANGED <<est, cfg>>
    /\ UNCHANGED <<tvars, ovars, dvars>>

ReadVariance ==
    /\ out' = VarianceOutcome("variance_", cfg, est.variance,
                              VarianceReturn(est.variance))
    /\ reads' = Remember("variance_", out')
    /\ UNCHANGED <<est, cfg>>
    /\ UNCHANGED <<tvars, ovars, dvars>>

\* truncated_linear_regression.py:164-172  predict(X).  Without the assert
\* (-O) an unfitted estimator fails in `X @ None`.
PredictOutcome(e, c) ==
    IF e.coef.tag # "tensor"
    THEN IF c.optimize
         THEN Raised("predict", "TypeError: unsupported operand type(s) for @")
         ELSE Raised("predict", "AssertionError: must fit model before using predict method")
    ELSE Returned("predict", [ref |-> "fresh", val |-> e.coef.val])

Predict ==
    /\ out' = PredictOutcome(est, cfg)
    /\ UNCHANGED <<est, cfg, reads>>
    /\ UNCHANGED <<tvars, ovars, dvars>>

\* The caller changes, in place, the tensor the last property read handed
\* out (e.g. t.mul_(2)).  When that tensor is an attribute's own tensor, the
\* attribute changes with it.
Mutate ==
    /\ out.kind = "value"
    /\ out.op \in Props
    /\ \E nv \in (1..MaxVal) \ {out.val} :
        /\ out' = [out EXCEPT !.kind = "mutated", !.val = nv]
        /\ est' = IF out.ref = "fresh" THEN est
                  ELSE [est EXCEPT ![out.ref] = Tensor(nv)]
    /\ UNCHANGED <<cfg, reads>>
    /\ UNCHANGED <<tvars, ovars, dvars>>

(* ============================ oracles (oracle.py) ===================== *)
\* Coordinates of a batch and values of a bound.
Coords == 0..MaxCoord

\* Batches of shape (n, d), n <= MaxBatchRows, d <= dmax, as sequences of rows.
Batches(dmax) ==
    UNION {[1..n -> [1..d -> Coords]] : n \in 0..MaxBatchRows, d \in 1..dmax}

\* A tensor: its dtype and its contents as nested sequences.
EmptyTensor == [dtype |-> "float32", data |-> <<>>]

NoIndicator == [kind |-> "none", val |-> EmptyTensor, err |-> "",
                before |-> "none"]

\* oracle.py:32-33  Interval(lower, upper) keeps Bounds(lower, upper); the
\* bounds are one-element tensors, broadcast against every column, as
\* arbitrary.py:163 builds them.
Interval(lower, upper) ==
    [kind |-> "Interval", intervals |-> <<<<lower, upper>>>>, dist |-> "n/a"]

\* oracle.py:44-45  KIntervalUnion(intervals) builds one Interval per pair.
KIntervalUnion(intervals) ==
    [kind |-> "KIntervalUnion", intervals |-> intervals, dist |-> "n/a"]

\* oracle.py:178-203  UnknownGaussian(...): self._dist = None.
UnknownGaussian == [kind |-> "UnknownGaussian", intervals |-> <<>>, dist |-> "None"]

\* Working distributions the dist setter can be given.
Dists == {"N1", "N2"}

Bool(b) == IF b THEN 1 ELSE 0

\* oracle.py:36  the comparisons `lower < x` and `x < upper`.
Less_OrEqual(a, b) == a <= b
Less(a, b) == a < b

\* Tensor.prod(-1) of one row.
RECURSIVE Prod(_)
Prod(row) == IF row = <<>> THEN 1 ELSE Head(row) * Prod(Tail(row))

\* oracle.py:35-36  Interval.__call__(x) for x of shape (n, d): two
\* comparisons, each reduced over the last dimension, multiplied, and given
\* a trailing dimension: shape (n, 1).
IntervalCall(b, xx) ==
    [dtype |-> "int64",
     data |-> [r \in DOMAIN xx |->
                <<Prod([c \in DOMAIN xx[r] |-> Bool(Less(b[1], xx[r][c]))])
                  * Prod([c \in DOMAIN xx[r] |-> Bool(Less(xx[r][c], b[2]))])>>]]

\* Tensor.nelement() of a tensor of shape (n, 1) or (0,).
NElement(t) == Len(t.data)

\* ch.logical_or of two tensors of shape (n, 1).
LogicalOr_And(a, b) ==
    [dtype |-> "bool",
     data |-> [r \in DOMAIN a.data |->
                <<Bool(a.data[r][1] # 0 /\ b.data[r][1] # 0)>>]]
LogicalOr(a, b) ==
    [dtype |-> "bool",
     data |-> [r \in DOMAIN a.data |->
                <<Bool(a.data[r][1] # 0 \/ b.data[r][1] # 0)>>]]

\* t[..., None] for t of shape (n, 1) (or (0,)): shape (n, 1, 1).
Unsqueeze(t) ==
    [t EXCEPT !.data = [r \in DOMAIN t.data |->
                          [c \in DOMAIN t.data[r] |-> <<t.data[r][c]>>]]]

\* oracle.py:48-50  the fold over self.oracles.
RECURSIVE UnionFold(_, _, _)
UnionFold(res, oracles, xx) ==
    IF oracles = <<>> THEN res
    ELSE UnionFold(IF NElement(res) > 0
                   THEN LogicalOr(res, IntervalCall(Head(oracles), xx))
                   ELSE IntervalCall(Head(oracles), xx),
                   Tail(oracles), xx)

\* oracle.py:47-51  KIntervalUnion.__call__(x).
KIntervalUnionCall(intervals, xx) ==
    Unsqueeze(UnionFold(EmptyTensor, intervals, xx))

\* oracle.py:206  `self.dist is None`.
NotReady_Never(o) == FALSE
NotReady(o) == o.dist = "None"

Returns(t) == [NoIndicator EXCEPT !.kind = "value", !.val = t, !.before = phi]
Raises(e) == [NoIndicator EXCEPT !.kind = "raised", !.err = e, !.before = phi]

\* The oracle objects SpecOracle starts from.
Pairs == Coords \X Coords
OracleSet ==
    {Interval(b[1], b[2]) : b \in Pairs}
    \cup {KIntervalUnion(q) : q \in UNION {[1..k -> Pairs] : k \in 1..MaxIntervals}}
    \cup {UnknownGaussian}

\* An oracle object and the batch it is about to be called on: any shape
\* for an Interval, one column (the responses of arbitrary.py:84) otherwise.
OracleInit ==
    /\ phi \in OracleSet
    /\ x \in Batches(IF phi.kind = "Interval" THEN MaxDim ELSE 1)
    /\ indicator = NoIndicator

OracleIdle ==
    /\ phi = UnknownGaussian
    /\ x = <<>>
    /\ indicator = NoIndicator

\* oracle.py:35-36  phi(x) for an Interval.
CallInterval ==
    /\ phi.kind = "Interval"
    /\ indicator.kind = "none"
    /\ indicator' = Returns(IntervalCall(phi.intervals[1], x))
    /\ UNCHANGED <<phi, x>>
    /\ UNCHANGED <<tvars, evars, dvars>>

\* oracle.py:47-51  phi(x) for a KIntervalUnion.
CallKIntervalUnion ==
    /\ phi.kind = "KIntervalUnion"
    /\ indicator.kind = "none"
    /\ indicator' = Returns(KIntervalUnionCall(phi.intervals, x))
    /\ UNCHANGED <<phi, x>>
    /\ UNCHANGED <<tvars, evars, dvars>>

\* oracle.py:229-231  the dist setter.
SetDist ==
    /\ phi.kind = "UnknownGaussian"
    /\ \E dd \in Dists \cup {"None"} :
        phi' = [phi EXCEPT !.dist = dd]
    /\ indicator' = [NoIndicator EXCEPT !.kind = "assigned", !.before = phi]
    /\ UNCHANGED x
    /\ UNCHANGED <<tvars, evars, dvars>>

\* oracle.py:205-209  UnknownGaussian.__call__(x): refuse without a
\* distribution, else one 0./1. per row (shape (n, 1)), decided by the
\* densities and the Hermite expansion.
CallUnknownGaussian ==
    /\ phi.kind = "UnknownGaussian"
    /\ IF NotReady(phi)
       THEN indicator' = Raises("Exception: must learn underlying distribution for membership oracle")
       ELSE \E f \in [DOMAIN x -> {0, 1}] :
                indicator' = Returns([dtype |-> "float32",
                                      data |-> [r \in DOMAIN x |-> <<f[r]>>]])
    /\ UNCHANGED <<phi, x>>
    /\ UNCHANGED <<tvars, evars, dvars>>

OracleNext ==
    \/ CallInterval
    \/ CallKIntervalUnion
    \/ SetDist
    \/ CallUnknownGaussian

(* ===================== experiment driver (arbitrary.py) =============== *)
\* arbitrary.py:66  the grid of sample sizes, scaled down.
samples == [k \in 1..GridLen |-> GridStep * k]

\* arbitrary.py:163  args.phi = KIntervalUnion over (-1, -.5), (0, .5), (2, 3),
\* in units of a quarter.
DriverPhi == KIntervalUnion(<<<<0 - 4, 0 - 2>>, <<0, 2>>, <<8, 12>>>>)

\* Responses a generated row can have (arbitrary.py:84), in the same units:
\* inside the first interval, on a bound, inside the second, outside.
Responses == {0 - 3, 0, 1, 5}

NoStore == [open |-> FALSE, rows |-> <<>>, closed |-> 0]

\* arbitrary.py:148-163  the arguments main is called with.
DriverInit ==
    /\ dargs \in [samples : 1..MaxDraw, bias : BOOLEAN, trials : 1..MaxTrials]
    /\ dpc = "trial"
    /\ dtrial = 0
    /\ grid_pos = 0
    /\ round = 0
    /\ x_trunc = <<>>
    /\ y_trunc = <<>>
    /\ total = 0
    /\ dstore = NoStore
    /\ accepted = {}
    /\ derror = ""

DriverIdle ==
    /\ dargs = [samples |-> 1, bias |-> FALSE, trials |-> 1]
    /\ dpc = "idle"
    /\ dtrial = 0
    /\ grid_pos = 0
    /\ round = 0
    /\ x_trunc = <<>>
    /\ y_trunc = <<>>
    /\ total = 0
    /\ dstore = NoStore
    /\ accepted = {}
    /\ derror = ""

\* arbitrary.py:51-66 and 142  head of `for i in range(args.trials)`: open a
\* store and add the results table.
DriverTrialHead ==
    /\ dpc = "trial"
    /\ IF dtrial < dargs.trials
       THEN /\ dstore' = [dstore EXCEPT !.open = TRUE, !.rows = <<>>]
            /\ grid_pos' = 1
            /\ dpc' = "grid"
       ELSE /\ dpc' = "done"
            /\ UNCHANGED <<dstore, grid_pos>>
    /\ UNCHANGED <<dargs, dtrial, round, x_trunc, y_trunc, total, accepted,
                   derror>>
    /\ UNCHANGED ovars
    /\ UNCHANGED <<tvars, evars>>

\* arbitrary.py:69-80 and 142  head of `for s in samples`: draw the ground
\* truth and empty the sample, or close the store after the last entry.
DriverGridHead ==
    /\ dpc = "grid"
    /\ IF grid_pos <= Len(samples)
       THEN /\ total' = 0
            /\ x_trunc' = <<>>
            /\ y_trunc' = <<>>
            /\ round' = 0
            /\ accepted' = {}
            /\ dpc' = "sample"
            /\ UNCHANGED <<dstore, dtrial>>
       ELSE /\ dstore' = [dstore EXCEPT !.open = FALSE, !.closed = @ + 1]
            /\ dtrial' = dtrial + 1
            /\ dpc' = "trial"
            /\ UNCHANGED <<total, x_trunc, y_trunc, round, accepted>>
    /\ UNCHANGED <<dargs, grid_pos, derror>>
    /\ UNCHANGED ovars
    /\ UNCHANGED <<tvars, evars>>

\* Tensor.nonzero(as_tuple=False) of a tensor of shape (n, 1, 1): one row of
\* three 0-based indices per non-zero element, in row-major order.
RECURSIVE NonzeroFrom(_, _)
NonzeroFrom(t, r) ==
    IF r > Len(t.data) THEN <<>>
    ELSE (IF t.data[r][1][1] # 0 THEN <<<<r - 1, 0, 0>>>> ELSE <<>>)
         \o NonzeroFrom(t, r + 1)
Nonzero(t) == NonzeroFrom(t, 1)

\* Tensor.flatten() of a 2-D tensor.
RECURSIVE Flatten(_)
Flatten(rows) == IF rows = <<>> THEN <<>> ELSE Head(rows) \o Flatten(Tail(rows))

\* X[indices]: the rows of X at the given 0-based positions.
Index(rows, indices) == [k \in DOMAIN indices |-> rows[indices[k] + 1]]

\* ch.cat([a, b]) along dimension 0.
Cat(a, b) == a \o b

\* arbitrary.py:87  the two concatenations of one sampling round.
XTruncAfter(xt, X, indices) == Cat(xt, Index(X, indices))
YTruncAfter(yt, y, indices) == Cat(Index(y, indices), yt)

\* arbitrary.py:81-88  one round of `while x_trunc.size(0) < s`.  Row j of
\* the round is the covariate row <<round, j>>; its response carries the
\* row it was generated from and its value.
DriverSampleRound ==
    /\ dpc = "sample"
    /\ Len(x_trunc) < samples[grid_pos]
    /\ round < MaxRounds
    /\ \E vals \in [1..dargs.samples -> Responses] :
        LET X == [j \in 1..dargs.samples |-> <<round + 1, j>>]
            y == [j \in 1..dargs.samples |-> [of |-> X[j], val |-> vals[j]]]
            yy == [j \in 1..dargs.samples |-> <<vals[j]>>]
            member == KIntervalUnionCall(phi.intervals, yy)
            indices == Flatten(Nonzero(member))
        IN  /\ x' = yy
            /\ indicator' = Returns(member)
            /\ x_trunc' = XTruncAfter(x_trunc, X, indices)
            /\ y_trunc' = YTruncAfter(y_trunc, y, indices)
            /\ total' = total + dargs.samples
            /\ accepted' = accepted \cup
                  {X[j] : j \in {k \in 1..dargs.samples :
                                   \E b \in DOMAIN phi.intervals :
                                      phi.intervals[b][1] < vals[k]
                                      /\ vals[k] < phi.intervals[b][2]}}
    /\ round' = round + 1
    /\ UNCHANGED <<dargs, dpc, dtrial, grid_pos, dstore, derror>>
    /\ UNCHANGED phi
    /\ UNCHANGED <<tvars, evars>>

\* t[:n]
Take(t, n) == [k \in 1..Min2(n, Len(t)) |-> t[k]]

\* arbitrary.py:89-91  leave the loop: alpha = s / total (kept as the pair
\* of numerator and denominator), cut the sample to its first s rows.
DriverCutSample ==
    /\ dpc = "sample"
    /\ Len(x_trunc) >= samples[grid_pos]
    /\ x_trunc' = Take(x_trunc, samples[grid_pos])
    /\ y_trunc' = Take(y_trunc, samples[grid_pos])
    /\ dpc' = "fit"
    /\ UNCHANGED <<dargs, dtrial, grid_pos, round, total, dstore, accepted,
                   derror>>
    /\ UNCHANGED ovars
    /\ UNCHANGED <<tvars, evars>>

\* delphi.stats.linear_regression.TruncatedLinearRegression as
\* arbitrary.py:99-112 uses it: each of the three fits returns its results.
DriverFitsReturn == TRUE

\* arbitrary.py:117  ch.cat([ground_truth.weight.T, ground_truth.bias]):
\* without args.bias the Linear layer of line 71 has bias None.
RealParamsRaise(a) == ~a.bias

\* arbitrary.py:93-139  fit OLS and the three estimators on the sample,
\* compute the metrics, append the row of this s.
DriverFitAndRecord ==
    /\ dpc = "fit"
    /\ DriverFitsReturn
    /\ IF RealParamsRaise(dargs)
       THEN /\ dpc' = "raised"
            /\ derror' = "TypeError: expected Tensor as element 1 in argument 0, but got NoneType"
            /\ UNCHANGED <<dstore, grid_pos>>
       ELSE /\ dstore' = [dstore EXCEPT !.rows =
                            Append(@, [s |-> samples[grid_pos],
                                       alpha |-> <<samples[grid_pos], total>>,
                                       fitted |-> Len(x_trunc),
                                       open |-> dstore.open])]
            /\ grid_pos' = grid_pos + 1
            /\ dpc' = "grid"
            /\ derror' = derror
    /\ UNCHANGED <<dargs, dtrial, round, x_trunc, y_trunc, total, accepted>>
    /\ UNCHANGED ovars
    /\ UNCHANGED <<tvars, evars>>

DriverNext ==
    \/ DriverTrialHead
    \/ DriverGridHead
    \/ DriverSampleRound
    \/ DriverCutSample
    \/ DriverFitAndRecord

(* =============================== claims =============================== *)
Last(s) == s[Len(s)]
Has(s, e) == \E k \in DOMAIN s : s[k] = e
Pos(s, e) == CHOOSE k \in DOMAIN s : s[k] = e

\* C1: with early_stopping enabled, after every epoch's stopping test the
\* best-seen loss is the minimum validation loss observed so far, an epoch
\* that improves on the earlier minimum by more than tol leaves the count of
\* non-improving epochs at zero, and training has stopped only at an epoch
\* that failed to improve, after n_iter_no_change such epochs in a row.
\* Stated for a finite tolerance tol >= 0 and n_iter_no_change >= 1.
C1_EarlyStoppingRule ==
    (op = "train_model" /\ args.early_stopping /\ obs.checked > 0
     /\ args.tol >= 0 /\ args.n_iter_no_change >= 1) =>
        /\ best_loss = obs.min_val[1]
        /\ (obs.improved => no_improvement_count = 0)
        /\ (obs.early_exit =>
                ~obs.improved /\ obs.streak >= args.n_iter_no_change)

\* C2: with early_stopping disabled, a train_model call that returns the
\* model has run exactly trials * epochs training loops, and as many
\* validation loops when a validation loader exists, whatever
\* n_iter_no_change is (shown for a finite tol >= 0).
C2_AllEpochsRun ==
    (op = "train_model" /\ result = "model" /\ ~args.early_stopping
     /\ args.tol >= 0) =>
        /\ obs.train_loops = args.trials * args.epochs
        /\ (loaders.val # <<>> => obs.val_loops = obs.train_loops)
        /\ (loaders.val = <<>> => obs.val_loops = 0)

\* C3: in every train_model run each trial calls pretrain_hook once, first,
\* then make_optimizer_and_schedule, then its model loops, and
\* post_training_hook once, last; when the model is returned every started
\* trial has been closed by post_training_hook and nothing ran after it.
C3_HooksOncePerTrial ==
    op = "train_model" =>
        LET log == obs.trial_log
        IN  /\ Count(log, "pretrain_hook") <= 1
            /\ Count(log, "make_optimizer_and_schedule") <= 1
            /\ Count(log, "post_training_hook") <= 1
            /\ (log # <<>> => log[1] = "pretrain_hook")
            /\ (Len(log) >= 2 => log[2] = "make_optimizer_and_schedule")
            /\ (Has(log, "post_training_hook") => Last(log) = "post_training_hook")
            /\ (pc \in {"epoch", "loop", "log"} =>
                    /\ obs.pretrain = trial + 1
                    /\ obs.make_opt = trial + 1
                    /\ obs.post = trial)
            /\ (pc = "trial" =>
                    /\ obs.pretrain = trial
                    /\ obs.make_opt = trial
                    /\ obs.post = trial)
            /\ (result = "model" =>
                    /\ obs.post = obs.pretrain
                    /\ obs.make_opt = obs.pretrain
                    /\ obs.pretrain >= 1
                    /\ Last(log) = "post_training_hook")

\* C3 witness: the model was returned by the stopping test in the second
\* trial, after both trials were opened and closed by their hooks.
C3_Witness ==
    /\ op = "train_model"
    /\ result = "model"
    /\ obs.early_exit
    /\ obs.pretrain = 2
    /\ obs.post = 2
    /\ obs.train_loops >= 2

\* C4: every training batch calls the model's pre_step_hook exactly once,
\* after loss.backward and before optimizer.step; a validation batch never
\* calls it.
C4_PreStepHookBetweenBackwardAndStep ==
    LET b == obs.batch_log
    IN  /\ (Has(b, "optimizer.step") =>
                /\ Count(b, "pre_step_hook") = 1
                /\ Pos(b, "backward") < Pos(b, "pre_step_hook")
                /\ Pos(b, "pre_step_hook") < Pos(b, "optimizer.step"))
        /\ (obs.batch_type = VAL => ~Has(b, "pre_step_hook"))

\* C5: train_model on a training loader without rows raises at once: no
\* hook was called, no model loop ran, no table was added and no row
\* appended.
C5_EmptyTrainLoaderFailsFirst ==
    (op = "train_model" /\ loaders.train = 0) =>
        /\ pc = "idle"
        /\ result = "raised"
        /\ error = "Exception: No Datapoints in Train Loader"
        /\ obs.pretrain = 0 /\ obs.make_opt = 0 /\ obs.post = 0
        /\ obs.train_loops = 0 /\ obs.val_loops = 0
        /\ obs.tables = 0 /\ obs.rows = 0
        /\ obs.trial_log = <<>> /\ obs.batch_log = <<>>

\* C5 witness: a Trainer with a store was given an empty training loader and
\* a validation loader, and the call has raised.
C5_Witness ==
    /\ op = "train_model"
    /\ loaders.train = 0
    /\ loaders.val # <<>>
    /\ store.attached
    /\ result = "raised"

\* C6: a finished eval_model call has run exactly one validation loop and
\* returned the metrics without raising, with exactly one row appended to
\* the `eval` table when a store is attached.
C6_EvalModelReturnsMetrics ==
    (op = "eval_model" /\ pc = "idle") =>
        /\ result = "metrics"
        /\ obs.val_loops = 1
        /\ (store.attached => obs.rows = 1 /\ "eval" \in store.tables)
        /\ (~store.attached => obs.rows = 0)

\* Exceptions that come from the model handed to the Trainer (its call
\* signature, its hooks, its schedule, its checkpoint) or from an empty
\* loader, not from how train_model treats the validation loader.
ModelErrors ==
    {"TypeError: model_loop() missing 'epoch'",
     "TypeError: __call__() missing argument 'y'",
     "TypeError: iteration_hook() takes 5 positional arguments",
     "AttributeError: 'scheduler'",
     "UnboundLocalError: loss"}

\* C7: without a validation loader train_model runs only training loops and
\* still returns the model (unless the model itself raises), and with a
\* store attached the `logs` table has one row per completed epoch, with or
\* without a validation loader.
C7_ValLoaderOptional ==
    (op = "train_model" /\ loaders.train > 0) =>
        /\ (loaders.val = <<>> =>
                /\ obs.val_loops = 0
                /\ (pc = "idle" => result = "model" \/ error \in ModelErrors))
        /\ (store.attached /\ (pc = "epoch" \/ result = "model") =>
                obs.rows = obs.train_loops)
        /\ (~store.attached => obs.rows = 0)

\* The inputs the documentation of fit accepts.
WellShaped(inp, nv) ==
    /\ inp.rows > inp.cols
    /\ inp.ydim = 2
    /\ inp.ycols <= inp.cols
    /\ (nv = <<>> \/ nv[1] = inp.ycols)

\* C8: fit passes its input validation exactly when X has more rows than
\* columns, y is 2-D with no more columns than X and, in the known-variance
\* regime only, noise_var has as many rows as y has columns; any other input
\* fails with an invalid-input (assertion) error and leaves args untouched.
C8_FitValidation ==
    (out.op = "fit" /\ ~cfg.optimize) =>
        /\ (out.validated <=> WellShaped(out.input, cfg.noise_var))
        /\ (~out.validated =>
                /\ out.kind = "raised"
                /\ out.err = "AssertionError"
                /\ cfg.T = out.T_before)

\* C9: after a completed fit without intercept, best_intercept_ and
\* avg_intercept_ each warn and return None; predict before any completed
\* fit raises the not-fitted error.
C9_InterceptWarnsPredictFails ==
    ~cfg.optimize =>
        /\ (out.op \in {"best_intercept_", "avg_intercept_"}
            /\ out.fitted_before /\ ~cfg.fit_intercept =>
                /\ out.kind = "None"
                /\ out.warned)
        /\ (out.op = "predict" /\ ~out.fitted_before =>
                /\ out.kind = "raised"
                /\ out.err = "AssertionError: must fit model before using predict method")

\* C10: after a completed fit a property hands out a copy: whatever the
\* caller did to the values it obtained, a later read of the same property
\* returns what its first read returned.
C10_PropertiesReturnCopies ==
    (out.kind = "value" /\ out.op \in Props /\ out.fitted_before
     /\ reads.op = out.op) =>
        out.val = reads.val

\* C11: while the Trainer trains a TruncatedLinearRegression without
\* noise_var, every training batch runs to its end: the optimizer steps, the
\* Trainer's iteration_hook call reaches the estimator's iteration_hook, and
\* the variance 1/lambda lies within var_bounds before the next batch.
C11_VarianceClampedAfterStep ==
    (op = "train_model" /\ UnknownVariance(model) /\ obs.batch_type = TRAIN) =>
        /\ Has(obs.batch_log, "optimizer.step")
        /\ Last(obs.batch_log) = "iteration_hook"
        /\ error = ""
        /\ model.variance >= VarBoundsLower
        /\ model.variance <= VarBoundsUpper

\* C17: a model_loop call of type 'train' or 'val' over a loader of any
\* length, zero batches included, returns the loop's means without raising
\* after one iteration_hook call per batch (after the optimizer step when
\* training) and one epoch_hook call; any other loop type is refused with a
\* ValueError before the model is touched.  Stated for a model whose call
\* signature and hooks are the ones the Trainer uses, without a per-epoch
\* schedule.
C17_ModelLoopHooksAndReturn ==
    (op = "model_loop" /\ pc = "idle" /\ model.kind = "delphi"
     /\ ~EpochStepRaises(model)) =>
        IF loop.type \in LoopTypes
        THEN /\ result = "means"
             /\ obs.iter_hooks = loop.n
             /\ obs.epoch_hooks = 1
             /\ (loop.n > 0 => Last(obs.batch_log) = "iteration_hook")
             /\ (loop.n > 0 /\ loop.type = TRAIN =>
                    Pos(obs.batch_log, "optimizer.step")
                        < Pos(obs.batch_log, "iteration_hook"))
        ELSE /\ result = "raised"
             /\ error = "ValueError: loop type must be 'train' or 'val'"
             /\ obs = NoObs

\* C18: for a model with a schedule, in the first epoch of train_model the
\* schedule has been stepped once per training batch when epoch_step is
\* false and once in all when it is true, the validation loop adds no
\* step, and the epoch is not cut short by the step itself.
C18_ScheduleStepsPerEpoch ==
    (op = "train_model" /\ model.schedule /\ model.kind = "delphi"
     /\ trial = 0 /\ epoch = 1) =>
        LET expected == IF model.epoch_step THEN 1 ELSE loaders.train
        IN  /\ (pc = "log" => obs.sched_steps = expected)
            /\ (pc = "loop" /\ loop.type = VAL => obs.sched_steps = expected)
            /\ (pc = "idle" /\ loop.type = TRAIN /\ loop.i = loop.n =>
                    result # "raised")

\* C20: with early_stopping enabled every trial starts with the count of
\* non-improving epochs and the best-seen loss at their initial values, and
\* with epochs < n_iter_no_change no train_model call is stopped by the
\* stopping test (tol >= 0, n_iter_no_change >= 1).
C20_StoppingStatePerTrial ==
    (op = "train_model" /\ args.early_stopping /\ args.tol >= 0
     /\ args.n_iter_no_change >= 1) =>
        /\ (pc = "epoch" /\ epoch = 1 =>
                no_improvement_count = 0 /\ best_loss = NegInf)
        /\ (args.epochs < args.n_iter_no_change => ~obs.early_exit)

\* A row lies inside an interval: every coordinate strictly between the
\* two bounds.
Inside(b, row) == \A c \in DOMAIN row : b[1] < row[c] /\ row[c] < b[2]

\* C12: the Interval oracle returns exactly one indicator per row of the
\* batch, 1 when every coordinate of the row lies strictly between lower and
\* upper and 0 otherwise (a coordinate on a bound or outside rejects).
C12_IntervalStrictlyInside ==
    (phi.kind = "Interval" /\ indicator.kind = "value") =>
        /\ Len(indicator.val.data) = Len(x)
        /\ \A r \in DOMAIN x :
              /\ Len(indicator.val.data[r]) = 1
              /\ indicator.val.data[r][1] \in {0, 1}
              /\ (indicator.val.data[r][1] = 1 <=> Inside(phi.intervals[1], x[r]))

\* C12 witness: a row of two columns, the first on the lower bound and the
\* second strictly inside a non-empty interval, was rejected.
C12_Witness ==
    /\ phi.kind = "Interval"
    /\ indicator.kind = "value"
    /\ Len(x) = 1
    /\ Len(x[1]) = 2
    /\ x[1][1] = phi.intervals[1][1]
    /\ Inside(phi.intervals[1], <<x[1][2]>>)
    /\ indicator.val.data[1][1] = 0

\* The orders in which a list of intervals can be supplied.
Orders(q) == {[k \in DOMAIN q |-> q[f[k]]] : f \in Permutations(DOMAIN q)}

\* C13: KIntervalUnion accepts a row exactly when at least one of its
\* intervals contains it, and the tensor it returns is the same for every
\* order of the intervals.
C13_UnionIsOrOfIntervals ==
    (phi.kind = "KIntervalUnion" /\ indicator.kind = "value") =>
        /\ Len(indicator.val.data) = Len(x)
        /\ \A r \in DOMAIN x :
              (indicator.val.data[r][1][1] # 0) <=>
                  (\E k \in DOMAIN phi.intervals : Inside(phi.intervals[k], x[r]))
        /\ \A q \in Orders(phi.intervals) :
              KIntervalUnionCall(q, x) = indicator.val

\* C13 witness: a union of two intervals accepted a row that its first
\* interval rejects and its second contains.
C13_Witness ==
    /\ phi.kind = "KIntervalUnion"
    /\ indicator.kind = "value"
    /\ Len(phi.intervals) = 2
    /\ Len(x) = 1
    /\ ~Inside(phi.intervals[1], x[1])
    /\ Inside(phi.intervals[2], x[1])
    /\ indicator.val.data[1][1][1] # 0

C15_OnlyAcceptedRowsKept ==
    /\ \A k \in DOMAIN x_trunc : x_trunc[k] \in accepted
    /\ \A k \in DOMAIN y_trunc : y_trunc[k].of \in accepted

\* C16: a trial appends one row per entry of the grid, in grid order, while
\* its store is open, and main does not raise; each row carries its s,
\* alpha = s / total with 0 < alpha <= 1, and was fitted on exactly s rows;
\* a closed store holds one row for every entry of the grid.
C16_OneRowPerGridEntry ==
    /\ dpc # "raised"
    /\ (dpc \in {"grid", "sample", "fit"} => dstore.open)
    /\ Len(dstore.rows) <= Len(samples)
    /\ \A k \in DOMAIN dstore.rows :
          /\ dstore.rows[k].s = samples[k]
          /\ dstore.rows[k].open
          /\ dstore.rows[k].alpha[1] = samples[k]
          /\ 0 < dstore.rows[k].alpha[1]
          /\ dstore.rows[k].alpha[1] <= dstore.rows[k].alpha[2]
          /\ dstore.rows[k].fitted = samples[k]
    /\ (dstore.closed > 0 /\ ~dstore.open =>
            Len(dstore.rows) = Len(samples))

\* C19: x_trunc and y_trunc have the same number of rows, and y_trunc[k] is
\* the response generated from the covariate row x_trunc[k], in every
\* sampling round and after the cut to s rows.
C19_SampleRowAligned ==
    /\ Len(x_trunc) = Len(y_trunc)
    /\ \A k \in DOMAIN x_trunc : y_trunc[k].of = x_trunc[k]

TrainerNext ==
    \/ CallModelLoop
    \/ CallTrainModel
    \/ TrialHead
    \/ EpochHead
    \/ LoopBatch
    \/ LoopEnd
    \/ EpochTail
    \/ CallEvalModel

EstimatorNext ==
    \/ Fit
    \/ ReadBestCoef
    \/ ReadBestIntercept
    \/ ReadAvgCoef
    \/ ReadAvgIntercept
    \/ ReadVariance
    \/ Predict
    \/ Mutate

\* The estimator left alone while the Trainer is driven, and the converse.
EstimatorIdle ==
    /\ cfg = [noise_var |-> <<>>, fit_intercept |-> TRUE, optimize |-> FALSE,
              T |-> <<>>]
    /\ est = [coef |-> None, intercept |-> None, avg_coef |-> Unset,
              avg_intercept |-> Unset, variance |-> Unset]
    /\ out = NoOut
    /\ reads = NoReads

TrainerIdle ==
    /\ args = [epochs |-> 0, trials |-> 1, tol |-> 0, early_stopping |-> FALSE,
               n_iter_no_change |-> 0]
    /\ model = [kind |-> "TruncatedLinearRegression", schedule |-> FALSE,
                epoch_step |-> FALSE, noise_var |-> FALSE,
                variance |-> VarBoundsLower]
    /\ store = [attached |-> FALSE, tables |-> {}, logs |-> 0, eval |-> 0]
    /\ no_improvement_count = 0
    /\ best_loss = NegInf
    /\ pc = "idle"
    /\ op = "none"
    /\ loaders = [train |-> 0, val |-> <<>>]
    /\ trial = 0
    /\ epoch = 0
    /\ loop = NoLoop
    /\ val_loss = <<>>
    /\ result = "none"
    /\ error = ""
    /\ obs = NoObs
    /\ calls = 0

Init == TrainerInit /\ EstimatorIdle /\ OracleIdle /\ DriverIdle
Next == TrainerNext
Spec == Init /\ [][Next]_vars

InitFit == EstimatorInit /\ TrainerIdle /\ OracleIdle /\ DriverIdle
NextFit == EstimatorNext
SpecFit == InitFit /\ [][NextFit]_vars

InitOracle == OracleInit /\ TrainerIdle /\ EstimatorIdle /\ DriverIdle
NextOracle == OracleNext
SpecOracle == InitOracle /\ [][NextOracle]_vars

InitDriver ==
    /\ DriverInit
    /\ phi = DriverPhi
    /\ x = <<>>
    /\ indicator = NoIndicator
    /\ TrainerIdle
    /\ EstimatorIdle
NextDriver == DriverNext
SpecDriver == InitDriver /\ [][NextDriver]_vars
====
